---- MODULE Spec2Model ----
(***************************************************************************)
(* Model of the yagaw HTTP router: the route table, route registration,    *)
(* request dispatch and the built-in not-found handler.                    *)
(*                                                                         *)
(* Spec is the router of src/router.go.  SpecScan is the same router with  *)
(* the RegisterRoute of src/unnamed/part_001, which finds the placeholders *)
(* by scanning the path and records their names.  SpecWide and             *)
(* SpecScanWide are the two routers on a wider set of registered paths,    *)
(* with an application that replaces the package logger.                   *)
(*                                                                         *)
(* A Go string is a sequence of one-character strings.  A route key is the *)
(* Go string the table is indexed by; the capture group that RegisterRoute *)
(* substitutes for a placeholder and the two anchors it adds are kept as   *)
(* single elements of the sequence (CAP, "^", "$").  No path of the model  *)
(* contains "(", "^" or "$", so two keys are equal as sequences exactly    *)
(* when the Go strings are equal.                                          *)
(***************************************************************************)
EXTENDS Integers, Sequences, FiniteSets, TLC

\* Number of RegisterRoute calls a behaviour makes.
MaxRegs == 3
\* Number of RegisterRoute calls of a behaviour that registers WidePaths.
MaxWideRegs == 1
\* Number of RegisterRoute calls of a behaviour that registers MetaPaths.
MaxMetaRegs == 2
\* Number of RegisterRoute calls of a behaviour that registers NamePaths.
MaxNameRegs == 2
\* Number of RegisterRoute calls made before the server runs.
MaxConcRegs == 2
\* The goroutines in which net/http calls ServeHTTP.
Goroutines == {1, 2}
\* Two of the nine HttpRequestMethod constants.
Methods == {"GET", "POST"}
\* Application handlers; each writes its own name as the response body.
Handlers == {"h1", "h2"}
routeNotFoundHandler == "routeNotFoundHandler"

\* The replacement text of RegisterRoute, one element of a key.
CAP == "([a-z0-9-_]+)"

-----------------------------------------------------------------------------
(* Characters.                                                             *)

\* Mutant: the flag (?i) is missing, characters are compared as they are.
ToLower_CaseSensitive(c) == c

\* Case folding of (?i): the model's alphabet has one letter in two cases.
ToLower(c) == IF c = "A" THEN "a" ELSE IF c = "B" THEN "b" ELSE c

\* Representatives of the class [a-z0-9-_].
ClassChars == {"a", "b", "0", "-", "_"}

\* c is matched by [a-z0-9-_] under the flag (?i).
InClass(c) == ToLower(c) \in ClassChars

-----------------------------------------------------------------------------
(* Paths of the model.                                                     *)

RECURSIVE Join(_)
\* The path "/" s1 "/" s2 ... of a sequence of segments.
Join(segs) ==
  IF segs = << >> THEN << >> ELSE <<"/">> \o Head(segs) \o Join(Tail(segs))

\* The paths of one segment drawn from S, and of one segment below another
\* as in "/users/123".
SegPaths(S) ==
  { Join(<<s>>) : s \in S } \cup { Join(<<s, t>>) : s, t \in S }

\* Segments of registered paths: a literal, and a placeholder {a}.
RegSegs == { <<"a">>, <<"{", "a", "}">> }
RegPaths == SegPaths(RegSegs)

\* Segments of request paths: empty, a letter in both cases, a character
\* outside the class.
ReqSegs == { << >>, <<"a">>, <<"A">>, <<".">> }
ReqPaths == SegPaths(ReqSegs)

\* Segments of the registered paths of the key construction: the two of
\* RegSegs, a brace span whose text lies outside [a-z0-9-_], an empty brace
\* span, and two placeholders in one segment.
WideSegs ==
  RegSegs \cup { <<"{", ".", "}">>, <<"{", "}">>,
                 <<"{", "a", "}", "-", "{", "b", "}">> }
WidePaths == SegPaths(WideSegs)

\* Segments of registered paths with a character that has a meaning in a
\* regular expression: the two of RegSegs and an opening parenthesis.
MetaSegs == RegSegs \cup { <<"(">> }
MetaPaths == SegPaths(MetaSegs)

\* Segments of registered paths with placeholders of two names.
NameSegs == RegSegs \cup { <<"{", "b", "}">> }
NamePaths == SegPaths(NameSegs)

-----------------------------------------------------------------------------
(* regexp: the placeholder expression (?i)({[a-z0-9-_]+}) of RegisterRoute. *)

RECURSIVE ClassRun(_, _)
\* Number of consecutive class characters of s from index i on.
ClassRun(s, i) ==
  IF i <= Len(s) /\ InClass(s[i]) THEN 1 + ClassRun(s, i + 1) ELSE 0

\* Length of the match of {[a-z0-9-_]+} that starts at index i, 0 if none.
\* The class excludes '}', so the greedy run of class characters is the
\* only candidate.
PlaceholderLen(s, i) ==
  IF i <= Len(s) /\ s[i] = "{"
  THEN LET n == ClassRun(s, i + 1)
       IN IF n >= 1 /\ i + n + 1 <= Len(s) /\ s[i + n + 1] = "}"
          THEN n + 2 ELSE 0
  ELSE 0

\* re.FindStringIndex(path) != nil
HasPlaceholder(s) == \E i \in 1..Len(s) : PlaceholderLen(s, i) > 0

RECURSIVE ReplaceFrom(_, _)
\* re.ReplaceAllString(path, `([a-z0-9-_]+)`) from index i on: leftmost,
\* non-overlapping matches are replaced, every other character is copied.
ReplaceFrom(s, i) ==
  IF i > Len(s) THEN << >>
  ELSE LET n == PlaceholderLen(s, i)
       IN IF n > 0 THEN <<CAP>> \o ReplaceFrom(s, i + n)
          ELSE <<s[i]>> \o ReplaceFrom(s, i + 1)

ReplaceAllString(s) == ReplaceFrom(s, 1)

-----------------------------------------------------------------------------
(* regexp: a key compiled as "(?i)" + key and searched in a path.          *)

RECURSIVE Ends(_, _, _, _)
\* The positions e such that the elements i.. of key k match p[j..e-1].
Ends(k, i, p, j) ==
  IF i > Len(k) THEN {j}
  ELSE LET t == k[i]
       IN CASE t = "^" -> IF j = 1 THEN Ends(k, i + 1, p, j) ELSE {}
            [] t = "$" -> IF j = Len(p) + 1 THEN Ends(k, i + 1, p, j) ELSE {}
            [] t = CAP ->
                 UNION { Ends(k, i + 1, p, e) :
                         e \in { x \in (j + 1)..(Len(p) + 1) :
                                 \A y \in j..(x - 1) : InClass(p[y]) } }
            [] t = "." -> IF j <= Len(p) THEN Ends(k, i + 1, p, j + 1) ELSE {}
            [] OTHER ->
                 IF j <= Len(p) /\ ToLower(p[j]) = ToLower(t)
                 THEN Ends(k, i + 1, p, j + 1) ELSE {}

SetMin(S) == CHOOSE x \in S : \A y \in S : x <= y
SetMax(S) == CHOOSE x \in S : \A y \in S : y <= x

\* Length of re.FindString(p) for re = "(?i)" + k: the match at the leftmost
\* start, the greedy one there; 0 when nothing matches.
FindStringLen(k, p) ==
  LET starts == { j \in 1..(Len(p) + 1) : Ends(k, 1, p, j) # {} }
  IN IF starts = {} THEN 0
     ELSE LET j == SetMin(starts) IN SetMax(Ends(k, 1, p, j)) - j

-----------------------------------------------------------------------------
(* http.ResponseWriter as the recorder of the tests sees it.               *)

NewRecorder ==
  [header |-> << >>, wroteHeader |-> FALSE, code |-> 0, sent |-> << >>,
   body |-> "", calls |-> << >>]

\* rw.Header().Set(name, value)
HeaderSet(rw, name, value) ==
  [rw EXCEPT !.header = (name :> value) @@ @,
             !.calls = Append(@, "Header.Set")]

\* The header map is snapshotted by the first WriteHeader.
CommitHeader(rw, code) ==
  IF rw.wroteHeader THEN rw
  ELSE [rw EXCEPT !.wroteHeader = TRUE, !.code = code, !.sent = rw.header]

\* rw.WriteHeader(code)
WriteHeader(rw, code) ==
  [CommitHeader(rw, code) EXCEPT !.calls = Append(@, "WriteHeader")]

\* rw.Write(s): an implicit WriteHeader(200) when none was written.
Write(rw, s) ==
  [CommitHeader(rw, 200) EXCEPT !.body = @ \o s, !.calls = Append(@, "Write")]

\* fmt.Fprintln(rw, s)
Fprintln(rw, s) == Write(rw, s \o "\n")

StatusNotFound == 404

\* Mutant: the status is written before the header is set.
RouteNotFound_StatusFirst(rw) ==
  Fprintln(HeaderSet(WriteHeader(rw, StatusNotFound),
                     "Content-Type", "text/plain"),
           "404 - Page not found")

\* routeNotFoundHandler(rw, req)
RouteNotFound(rw) ==
  Fprintln(WriteHeader(HeaderSet(rw, "Content-Type", "text/plain"),
                       StatusNotFound),
           "404 - Page not found")

\* The handler h called on rw: an application handler writes its name.
Invoke(h, rw) ==
  IF h = routeNotFoundHandler THEN RouteNotFound(rw) ELSE Write(rw, h)

-----------------------------------------------------------------------------
(* State.                                                                  *)

VARIABLES
  routes,   \* Router.routes: method -> key -> RequestHandlerPackage
  calls,    \* history: (method, path) -> handlers registered, in call order
  nregs,    \* history: number of RegisterRoute calls made
  last,     \* what the caller holds from its last call: after ServeHTTP the
            \* request, the handler invoked, the recorder written to and
            \* the log records written; after RegisteredRoutes the pointer
  Log,      \* the package logger: the level it was initialized with
  inflight  \* the ServeHTTP calls of the running server: per goroutine the
            \* position of its call and the local variables of the call

vars == <<routes, calls, nregs, last, Log, inflight>>

\* No server is running and no ServeHTTP call is active.
NoDispatch ==
  [serving |-> FALSE,
   g |-> [i \in Goroutines |-> [pc |-> "idle"]],
   handler |-> [i \in Goroutines |-> "nil"]]

\* Two of the log levels: the most verbose one and the one of the default
\* logger.
LogLevels == {"debug", "error"}

\* var Log = InitLogger(log_level.ErrorLvlName)
DefaultLogLevel == "error"

\* Mutant: the logger writes a debug record at every level.
LogDebug_AnyLevel(lvl, args) == <<args>>

\* Log.Debug(args...): the records written, one when the level of the logger
\* is debug and none at a less verbose level.
LogDebug(lvl, args) == IF lvl = "debug" THEN <<args>> ELSE << >>

\* debugRequest(rw, req)
debugRequest(lvl, method, path) ==
  LogDebug(lvl, <<"Received request:", method, path>>)

\* RequestHandlerPackage{Handler: handler}; IndexParams is left nil.
Package(h) == [Handler |-> h, IndexParams |-> << >>]

\* NewRouter()
Init ==
  /\ routes = << >>
  /\ calls = [c \in Methods \X RegPaths |-> << >>]
  /\ nregs = 0
  /\ last = [kind |-> "idle"]
  /\ Log = DefaultLogLevel
  /\ inflight = NoDispatch

-----------------------------------------------------------------------------
(* Registration.                                                           *)

\* Mutant: every path is anchored, also one without a placeholder.
RouteKey_AnchorAll(path) == <<"^">> \o ReplaceAllString(path) \o <<"$">>

\* Mutant: the end anchor is missing from a pattern key.
RouteKey_NoEndAnchor(path) ==
  IF ~HasPlaceholder(path) THEN path
  ELSE <<"^">> \o ReplaceAllString(path)

\* Mutant: the placeholders stay in the key with their names.
RouteKey_KeepNames(path) ==
  IF ~HasPlaceholder(path) THEN path
  ELSE <<"^">> \o path \o <<"$">>

\* Mutant: a path without a placeholder gets the start anchor.
RouteKey_StartAnchor(path) ==
  IF ~HasPlaceholder(path) THEN <<"^">> \o path
  ELSE <<"^">> \o ReplaceAllString(path) \o <<"$">>

\* The key RegisterRoute stores the route under.
RouteKey(path) ==
  IF ~HasPlaceholder(path) THEN path
  ELSE <<"^">> \o ReplaceAllString(path) \o <<"$">>

\* Mutant: an entry that exists is kept, the first registration wins.
Registered_KeepOld(rt, method, path, handler) ==
  LET old == IF method \in DOMAIN rt THEN rt[method] ELSE << >>
      new == old @@ (RouteKey(path) :> Package(handler))
  IN [m \in DOMAIN rt \cup {method} |-> IF m = method THEN new ELSE rt[m]]

\* Mutant: the route is stored under every method.
Registered_AllMethods(rt, method, path, handler) ==
  [m \in Methods |->
     (RouteKey(path) :> Package(handler))
       @@ (IF m \in DOMAIN rt THEN rt[m] ELSE << >>)]

\* Mutant: the table is made anew by every call, other methods are dropped.
Registered_Reset(rt, method, path, handler) ==
  LET old == IF method \in DOMAIN rt THEN rt[method] ELSE << >>
  IN [m \in {method} |-> (RouteKey(path) :> Package(handler)) @@ old]

\* Mutant: the method map holds the entry of the latest call only.
Registered_SingleEntry(rt, method, path, handler) ==
  [m \in DOMAIN rt \cup {method} |->
     IF m = method THEN (RouteKey(path) :> Package(handler)) ELSE rt[m]]

\* r.routes after RegisterRoute(method, path, handler).
Registered(rt, method, path, handler) ==
  LET old == IF method \in DOMAIN rt THEN rt[method] ELSE << >>
      new == (RouteKey(path) :> Package(handler)) @@ old
  IN [m \in DOMAIN rt \cup {method} |-> IF m = method THEN new ELSE rt[m]]

RegisterRoute(method, path, handler) ==
  /\ last.kind \in {"idle", "routes"}
  /\ nregs < MaxRegs
  /\ routes' = Registered(routes, method, path, handler)
  /\ calls' = [calls EXCEPT ![<<method, path>>] = Append(@, handler)]
  /\ nregs' = nregs + 1
  /\ UNCHANGED <<last, Log, inflight>>

-----------------------------------------------------------------------------
(* Dispatch.                                                               *)


\* len(re.FindString(path)) != 0 for re = "(?i)" + k.  The answers for the
\* keys and the request paths of the model are tabulated once; they depend
\* on the key and the path only.
FoundTable ==
  [k \in { RouteKey(p) : p \in WidePaths }, p \in ReqPaths |->
     FindStringLen(k, p) # 0]

Found(k, path) ==
  IF <<k, path>> \in DOMAIN FoundTable THEN FoundTable[k, path]
  ELSE FindStringLen(k, path) # 0

RECURSIVE ParenDepth(_, _)
\* Number of groups open after the first n elements of k, -1 once a ')'
\* closes a group that was not opened.
ParenDepth(k, n) ==
  IF n = 0 THEN 0
  ELSE LET d == ParenDepth(k, n - 1)
       IN IF d < 0 THEN -1
          ELSE IF k[n] = "(" THEN d + 1
          ELSE IF k[n] = ")" THEN d - 1
          ELSE d

\* regexp.MustCompile("(?i)" + k) returns: the syntax of k is valid.  In the
\* alphabet of the model the one syntax error is an unbalanced parenthesis;
\* the capture group of RegisterRoute is balanced.
Compiles(k) ==
  \/ \A i \in DOMAIN k : k[i] \notin {"(", ")"}
  \/ ParenDepth(k, Len(k)) = 0

\* matchRoutePattern(keys, path): the results (key, found, panicked) it can
\* have.  The keys come in the iteration order of a Go map, which is
\* unspecified, so every matching key can be the first one met, and so can
\* every key that MustCompile panics on.
matchRoutePattern(keys, path) ==
  LET bad == { k \in keys : ~Compiles(k) }
      hits == { k \in keys \ bad : Found(k, path) }
  IN { <<k, TRUE, FALSE>> : k \in hits }
       \cup (IF bad # {} THEN { << << >>, FALSE, TRUE >> } ELSE {})
       \cup (IF bad = {} /\ hits = {} THEN { << << >>, FALSE, FALSE >> } ELSE {})

\* The outcome of a findReqHandler call that does not return: the panic of
\* regexp.MustCompile unwinds it.
Panic == "panic"

\* The numbers of regexp.MustCompile calls findReqHandler can make for a
\* request: none before the fallback; in the fallback one for each key the
\* loop of matchRoutePattern visits, and the loop ends at the first key that
\* matches or does not compile.
Compilations(rt, method, path) ==
  IF method \notin DOMAIN rt THEN {0}
  ELSE IF path \in DOMAIN rt[method] THEN {0}
  ELSE LET keys == DOMAIN rt[method]
           ends == { k \in keys : ~Compiles(k) \/ Found(k, path) }
       IN IF ends = {} THEN {Cardinality(keys)}
          ELSE 1..(Cardinality(keys) - Cardinality(ends) + 1)

\* Mutant: no exact lookup, every request goes through the patterns.
findReqHandler_NoExact(rt, method, path) ==
  IF method \notin DOMAIN rt THEN {routeNotFoundHandler}
  ELSE { IF m[2] THEN rt[method][m[1]].Handler ELSE routeNotFoundHandler :
         m \in matchRoutePattern(DOMAIN rt[method], path) }

\* findReqHandler(req): the handlers it can return (the error is always
\* nil), and Panic when it can panic instead of returning.
findReqHandler(rt, method, path) ==
  IF method \notin DOMAIN rt THEN {routeNotFoundHandler}
  ELSE IF path \in DOMAIN rt[method] THEN {rt[method][path].Handler}
  ELSE { IF m[3] THEN Panic
         ELSE IF m[2] THEN rt[method][m[1]].Handler ELSE routeNotFoundHandler :
         m \in matchRoutePattern(DOMAIN rt[method], path) }

\* Mutant: indexing the table with a method that has no routes creates an
\* empty route mapping for it.
AfterLookup_Vivify(rt, method, path) ==
  IF method \in DOMAIN rt THEN rt ELSE (method :> << >>) @@ rt

\* r.routes after the reads of findReqHandler and matchRoutePattern: the
\* index expressions r.routes[method] and r.routes[method][path] and the
\* iteration over maps.Keys read a Go map and insert nothing.
AfterLookup(rt, method, path) == rt

\* The calls of ServeHTTP in the order of its statements.
ServeSteps == <<"debugRequest", "findReqHandler", "handler">>

\* One caller makes the calls, one after the other: ServeHTTP runs to its
\* end in one step and leaves the recorder with the caller.  log holds the
\* records the logger wrote during the call, steps the calls made.  When
\* findReqHandler panics, ServeHTTP is unwound before it has a handler: no
\* handler is called and nothing is written to the recorder.
ServeHTTP(method, path) ==
  /\ last.kind = "idle"
  /\ \E h \in findReqHandler(routes, method, path) :
    /\ last' = IF h = Panic
               THEN [kind |-> "panic", method |-> method, path |-> path,
                     rw |-> NewRecorder,
                     log |-> debugRequest(Log, method, path),
                     steps |-> SubSeq(ServeSteps, 1, 2)]
               ELSE [kind |-> "serve", method |-> method, path |-> path,
                     handler |-> h, rw |-> Invoke(h, NewRecorder),
                     log |-> debugRequest(Log, method, path),
                     steps |-> ServeSteps]
    /\ routes' = AfterLookup(routes, method, path)
    /\ UNCHANGED <<calls, nregs, Log, inflight>>

\* The caller is done with the recorder of its last request, or with the
\* pointer it held; the server has recovered the panic of a request.
Return ==
  /\ last.kind # "idle"
  /\ last' = [kind |-> "idle"]
  /\ UNCHANGED <<routes, calls, nregs, Log, inflight>>

-----------------------------------------------------------------------------
(* Inspection.                                                             *)

\* Mutant: a pointer to a copy of the table made at the time of the call.
RegisteredRoutes_Copy(rt) == [ref |-> "copy", val |-> rt]

\* RegisteredRoutes(): &r.routes, the address of the router's own field.
RegisteredRoutes(rt) == [ref |-> "r.routes", val |-> << >>]

\* *p while the router's table is rt.
Deref(p, rt) == IF p.ref = "r.routes" THEN rt ELSE p.val

\* The caller obtains the pointer and keeps it while it registers routes;
\* at is the number of registrations made before the call.
Inspect ==
  /\ last.kind = "idle"
  /\ last' = [kind |-> "routes", ptr |-> RegisteredRoutes(routes), at |-> nregs]
  /\ UNCHANGED <<routes, calls, nregs, Log, inflight>>

\* The application replaces the package logger:
\* yagaw.Log = yagaw.InitLogger(lvl)
InitLogger(lvl) ==
  /\ last.kind = "idle"
  /\ Log' = lvl
  /\ UNCHANGED <<routes, calls, nregs, last, inflight>>

SetLog == \E lvl \in LogLevels : InitLogger(lvl)

-----------------------------------------------------------------------------
Register == \E m \in Methods, p \in RegPaths, h \in Handlers : RegisterRoute(m, p, h)
Serve == \E m \in Methods, p \in ReqPaths : ServeHTTP(m, p)

\* The router with the logger the package creates, which the application
\* leaves in place.
Next == Register \/ Serve \/ Inspect \/ Return

Spec == Init /\ [][Next]_vars

-----------------------------------------------------------------------------
(* The scanning RegisterRoute of the second router source                  *)
(* (src/unnamed/part_001, lines 180-235).  Dispatch is the same code.      *)

\* The loop over the runes of path from index i on.  st is the loop state:
\* the parameters found, pathDepth, found, foundAt and the name builder.
\* Indexes are those of Go plus one.
RECURSIVE ScanFrom(_, _, _)
ScanFrom(path, i, st) ==
  IF i > Len(path) THEN st
  ELSE LET c == path[i]
           s1 == CASE c = "/" -> [st EXCEPT !.pathDepth = @ + 1]
                   [] c = "{" -> [st EXCEPT !.found = TRUE, !.foundAt = i]
                   [] c = "}" ->
                        [st EXCEPT !.found = FALSE,
                                   !.paramList =
                                      Append(@, [start |-> st.foundAt,
                                                 end |-> i,
                                                 pos |-> st.pathDepth,
                                                 name |-> st.name]),
                                   !.name = << >>]
                   [] OTHER -> st
           s2 == IF s1.found /\ c # "{"
                 THEN [s1 EXCEPT !.name = Append(@, c)] ELSE s1
       IN ScanFrom(path, i + 1, s2)

\* paramList after the search loop.
ScanParams(path) ==
  ScanFrom(path, 1,
           [paramList |-> << >>, pathDepth |-> -1, found |-> FALSE,
            foundAt |-> 1, name |-> << >>]).paramList

RECURSIVE BuildFrom(_, _, _, _)
\* pathBuilder after the parameters n.. were written, lastPos being the
\* index of the first character not yet copied.
BuildFrom(path, params, n, lastPos) ==
  IF n > Len(params) THEN SubSeq(path, lastPos, Len(path))
  ELSE SubSeq(path, lastPos, params[n].start - 1) \o <<CAP>>
         \o BuildFrom(path, params, n + 1, params[n].end + 1)

\* newPath: every path is anchored, with or without parameters.
ScanRouteKey(path) ==
  <<"^">> \o BuildFrom(path, ScanParams(path), 1, 1) \o <<"$">>

\* reqParamList: path depth -> parameter name, a later parameter of the
\* same depth replacing an earlier one.
ScanParamList(path) ==
  LET ps == ScanParams(path)
      depths == { ps[n].pos : n \in 1..Len(ps) }
  IN [d \in depths |->
        ps[SetMax({ n \in 1..Len(ps) : ps[n].pos = d })].name]

\* r.routes after the scanning RegisterRoute(method, path, handler).
ScanRegistered(rt, method, path, handler) ==
  LET old == IF method \in DOMAIN rt THEN rt[method] ELSE << >>
      pkg == [Handler |-> handler, ParamList |-> ScanParamList(path)]
      new == (ScanRouteKey(path) :> pkg) @@ old
  IN [m \in DOMAIN rt \cup {method} |-> IF m = method THEN new ELSE rt[m]]

ScanRegisterRoute(method, path, handler) ==
  /\ last.kind \in {"idle", "routes"}
  /\ nregs < MaxRegs
  /\ routes' = ScanRegistered(routes, method, path, handler)
  /\ calls' = [calls EXCEPT ![<<method, path>>] = Append(@, handler)]
  /\ nregs' = nregs + 1
  /\ UNCHANGED <<last, Log, inflight>>

ScanRegister ==
  \E m \in Methods, p \in RegPaths, h \in Handlers : ScanRegisterRoute(m, p, h)

NextScan == ScanRegister \/ Serve \/ Inspect \/ Return

\* The router whose RegisterRoute is the scanning one.
SpecScan == Init /\ [][NextScan]_vars

-----------------------------------------------------------------------------
(* The router on wider inputs: the routes are drawn from WidePaths and the  *)
(* application replaces the package logger.  These behaviours register few *)
(* routes (MaxWideRegs) and dispatch the same requests.                    *)

InitWide ==
  /\ routes = << >>
  /\ calls = [c \in Methods \X WidePaths |-> << >>]
  /\ nregs = 0
  /\ last = [kind |-> "idle"]
  /\ Log = DefaultLogLevel
  /\ inflight = NoDispatch

RegisterWide ==
  /\ nregs < MaxWideRegs
  /\ \E m \in Methods, p \in WidePaths, h \in Handlers : RegisterRoute(m, p, h)

NextWide == RegisterWide \/ Serve \/ Inspect \/ SetLog \/ Return

\* The router of src/router.go registering paths of WidePaths.
SpecWide == InitWide /\ [][NextWide]_vars

ScanRegisterWide ==
  /\ nregs < MaxWideRegs
  /\ \E m \in Methods, p \in WidePaths, h \in Handlers :
       ScanRegisterRoute(m, p, h)

NextScanWide == ScanRegisterWide \/ Serve \/ Inspect \/ SetLog \/ Return

\* The router with the scanning RegisterRoute registering paths of WidePaths.
SpecScanWide == InitWide /\ [][NextScanWide]_vars

-----------------------------------------------------------------------------
(* The router of src/router.go with routes drawn from MetaPaths.           *)

InitMeta ==
  /\ routes = << >>
  /\ calls = [c \in Methods \X MetaPaths |-> << >>]
  /\ nregs = 0
  /\ last = [kind |-> "idle"]
  /\ Log = DefaultLogLevel
  /\ inflight = NoDispatch

RegisterMeta ==
  /\ nregs < MaxMetaRegs
  /\ \E m \in Methods, p \in MetaPaths, h \in Handlers : RegisterRoute(m, p, h)

NextMeta == RegisterMeta \/ Serve \/ Inspect \/ Return

SpecMeta == InitMeta /\ [][NextMeta]_vars

-----------------------------------------------------------------------------
(* The router of src/router.go with routes drawn from NamePaths.           *)

InitNames ==
  /\ routes = << >>
  /\ calls = [c \in Methods \X NamePaths |-> << >>]
  /\ nregs = 0
  /\ last = [kind |-> "idle"]
  /\ Log = DefaultLogLevel
  /\ inflight = NoDispatch

RegisterNames ==
  /\ nregs < MaxNameRegs
  /\ \E m \in Methods, p \in NamePaths, h \in Handlers : RegisterRoute(m, p, h)

NextNames == RegisterNames \/ Serve \/ Inspect \/ Return

SpecNames == InitNames /\ [][NextNames]_vars

-----------------------------------------------------------------------------
(* The running server: net/http calls ServeHTTP in one goroutine per       *)
(* request, and the calls interleave at their statements.                  *)

\* Paths of the requests of the running server.
ConcPaths == SegPaths({ <<"a">> })

\* Mutant: the handler found is kept in one place shared by all calls.
HandlerSlot_Shared(i) == 1

\* Where the call of goroutine i keeps `handler` between findReqHandler and
\* the invocation: a local variable of its own ServeHTTP call.
HandlerSlot(i) == i

InitConc == Init

RegisterConc ==
  /\ ~inflight.serving
  /\ nregs < MaxConcRegs
  /\ \E m \in Methods, p \in RegPaths, h \in Handlers : RegisterRoute(m, p, h)

\* Server.Run(): the routes are registered, ListenAndServe starts.
Run ==
  /\ ~inflight.serving
  /\ last.kind = "idle"
  /\ inflight' = [inflight EXCEPT !.serving = TRUE]
  /\ UNCHANGED <<routes, calls, nregs, last, Log>>

\* ServeHTTP(rw, req) is entered in goroutine i: debugRequest(rw, req).
Begin(i, method, path) ==
  /\ inflight.serving
  /\ inflight.g[i].pc = "idle"
  /\ inflight' = [inflight EXCEPT !.g[i] =
                    [pc |-> "findReqHandler", method |-> method, path |-> path,
                     log |-> debugRequest(Log, method, path)]]
  /\ UNCHANGED <<routes, calls, nregs, last, Log>>

\* handler, err := r.findReqHandler(req)
Resolve(i) ==
  /\ inflight.g[i].pc = "findReqHandler"
  /\ LET c == inflight.g[i]
     IN /\ \E h \in findReqHandler(routes, c.method, c.path) :
             inflight' =
               IF h = Panic
               THEN [inflight EXCEPT !.g[i] = [c EXCEPT !.pc = "panic"]]
               ELSE [inflight EXCEPT !.g[i] = [c EXCEPT !.pc = "handler"],
                                     !.handler[HandlerSlot(i)] = h]
        /\ routes' = AfterLookup(routes, c.method, c.path)
  /\ UNCHANGED <<calls, nregs, last, Log>>

\* handler(rw, req)
Call(i) ==
  /\ inflight.g[i].pc = "handler"
  /\ LET c == inflight.g[i]
         h == inflight.handler[HandlerSlot(i)]
     IN inflight' = [inflight EXCEPT !.g[i] =
                       [pc |-> "done", method |-> c.method, path |-> c.path,
                        log |-> c.log, handler |-> h,
                        rw |-> Invoke(h, NewRecorder)]]
  /\ UNCHANGED <<routes, calls, nregs, last, Log>>

\* ServeHTTP returns, or its panic is recovered; the locals of the call are
\* gone.
Finish(i) ==
  /\ inflight.g[i].pc \in {"done", "panic"}
  /\ inflight' = [inflight EXCEPT !.g[i] = [pc |-> "idle"],
                                  !.handler[HandlerSlot(i)] = "nil"]
  /\ UNCHANGED <<routes, calls, nregs, last, Log>>

Dispatch ==
  \E i \in Goroutines :
    \/ \E m \in Methods, p \in ConcPaths : Begin(i, m, p)
    \/ Resolve(i)
    \/ Call(i)
    \/ Finish(i)

NextConc == RegisterConc \/ Run \/ Dispatch

SpecConc == InitConc /\ [][NextConc]_vars

-----------------------------------------------------------------------------
(* Vocabulary of the properties: what the registration history says.       *)

RECURSIVE Split(_)
\* The '/'-separated segments of a path that starts with '/'.
Split(p) ==
  IF p = << >> THEN << >>
  ELSE LET init == Split(SubSeq(p, 1, Len(p) - 1))
           c == p[Len(p)]
       IN IF c = "/" THEN Append(init, << >>)
          ELSE [init EXCEPT ![Len(init)] = Append(@, c)]

\* A path without placeholder braces.
IsLiteralPath(p) == \A i \in 1..Len(p) : p[i] \notin {"{", "}"}

\* A segment of the form {name}.
IsPlaceholderSeg(s) == Len(s) >= 2 /\ s[1] = "{" /\ s[Len(s)] = "}"

\* Segment s of a request fills a placeholder: one or more characters of
\* [a-z0-9-_], in either letter case.
FillsPlaceholder(s) ==
  /\ s # << >>
  /\ \A i \in 1..Len(s) : s[i] \in ClassChars \cup {"A", "B"}

\* The same text up to letter case.
SameFold(s, t) ==
  /\ Len(s) = Len(t)
  /\ \A i \in 1..Len(s) :
       s[i] = t[i] \/ <<s[i], t[i]>> \in {<<"a", "A">>, <<"A", "a">>}

\* Request path P aligns with registered path R, segment by segment.
Aligns(R, P) ==
  LET rs == Split(R)
      ps == Split(P)
  IN /\ Len(rs) = Len(ps)
     /\ \A i \in 1..Len(rs) :
          IF IsPlaceholderSeg(rs[i]) THEN FillsPlaceholder(ps[i])
          ELSE SameFold(rs[i], ps[i])

\* The paths registered so far under method m, literal and pattern.
RegLiterals(m) ==
  { p \in RegPaths : IsLiteralPath(p) /\ calls[<<m, p>>] # << >> }
RegPatterns(m) ==
  { p \in RegPaths : ~IsLiteralPath(p) /\ calls[<<m, p>>] # << >> }

\* The handler of the latest RegisterRoute(m, p, _).
LatestHandler(m, p) == calls[<<m, p>>][Len(calls[<<m, p>>])]

\* The handlers a dispatch of (m, p) can invoke in the current state.
Outcomes(m, p) == findReqHandler(routes, m, p)

Served == last.kind = "serve"

-----------------------------------------------------------------------------
(* C1 .. C10                                                               *)

\* C1: once a placeholder-free path R is registered under M with handler h,
\* then after any further registrations of other paths or methods a dispatch
\* of (M, R) invokes h and no other handler.
C1_LiteralRouteResolves ==
  (Served /\ last.path \in RegLiterals(last.method))
    => /\ last.handler = LatestHandler(last.method, last.path)
       /\ last.rw.body = LatestHandler(last.method, last.path)
       /\ Outcomes(last.method, last.path) = {last.handler}

\* C1 witness: a literal route was dispatched to its handler while a pattern
\* route that aligns with it is registered under the same method with
\* another handler.
C1_Witness ==
  /\ Served
  /\ last.path \in RegLiterals(last.method)
  /\ \E R \in RegPatterns(last.method) :
       /\ Aligns(R, last.path)
       /\ LatestHandler(last.method, R) # last.handler
  /\ last.handler = LatestHandler(last.method, last.path)

\* C2 (as claimed): a request path that aligns with a registered pattern
\* route, is not a registered literal path and aligns with no other
\* registered pattern route is dispatched to that route's handler, whatever
\* literal routes are registered.
C2_PatternRouteResolves ==
  (Served /\ last.path \notin RegLiterals(last.method))
    => \A R \in RegPatterns(last.method) :
         ( /\ Aligns(R, last.path)
           /\ \A R2 \in RegPatterns(last.method) \ {R} : ~Aligns(R2, last.path) )
         => last.handler = LatestHandler(last.method, R)

\* C3: with a literal route L and a pattern route that aligns with L under
\* one method, registered in either order, a dispatch of L invokes the
\* literal route's handler.  The step that registers the second of the two
\* leaves L resolving to the literal's handler, and every dispatch does so.
C3_ExactMatchPrecedence ==
  /\ [][ nregs' = nregs + 1 =>
         \A m \in Methods : \A L \in RegPaths : \A R \in RegPaths :
           ( /\ calls'[<<m, L>>] # << >> /\ calls'[<<m, R>>] # << >>
             /\ (calls[<<m, L>>] = << >> \/ calls[<<m, R>>] = << >>)
             /\ IsLiteralPath(L) /\ ~IsLiteralPath(R) /\ Aligns(R, L) )
           => findReqHandler(routes', m, L)
                = {calls'[<<m, L>>][Len(calls'[<<m, L>>])]} ]_vars
  /\ [](( /\ Served
          /\ last.path \in RegLiterals(last.method)
          /\ \E R \in RegPatterns(last.method) : Aligns(R, last.path) )
        => last.handler = LatestHandler(last.method, last.path))

\* C3 witness: a literal route was dispatched to its handler although the
\* key of a registered pattern route with another handler matches the
\* literal path, so that the fallback alone would have accepted the pattern.
C3_Witness ==
  /\ Served
  /\ last.path \in RegLiterals(last.method)
  /\ last.method \in DOMAIN routes
  /\ \E k \in DOMAIN routes[last.method] :
       /\ k[1] = "^"
       /\ <<k, TRUE, FALSE>> \in matchRoutePattern(DOMAIN routes[last.method], last.path)
       /\ routes[last.method][k].Handler # last.handler
  /\ last.handler = LatestHandler(last.method, last.path)

\* C4 (as claimed): a request path that equals no literal route of the
\* method and aligns with no pattern route of the method is answered by the
\* not-found handler.
C4_UnmatchedIsNotFound ==
  ( /\ Served
    /\ last.path \notin RegLiterals(last.method)
    /\ \A R \in RegPatterns(last.method) : ~Aligns(R, last.path) )
  => last.handler = routeNotFoundHandler

\* A segment of P is empty or missing where R has a placeholder.
MissingParam(R, P) ==
  LET rs == Split(R)
      ps == Split(P)
  IN /\ Len(ps) <= Len(rs)
     /\ \A i \in 1..Len(ps) :
          IsPlaceholderSeg(rs[i]) \/ SameFold(rs[i], ps[i])
     /\ \E i \in 1..Len(rs) :
          IsPlaceholderSeg(rs[i]) /\ (i > Len(ps) \/ ps[i] = << >>)

\* C5 (as claimed): a request path with an empty or missing segment at a
\* placeholder position of a registered pattern route resolves to
\* not-found, also when the literal prefix of the pattern is a route of
\* its own.  (The request path is itself no registered route.)
C5_MissingParamIsNotFound ==
  ( /\ Served
    /\ last.path \notin RegLiterals(last.method)
    /\ \A R \in RegPatterns(last.method) : ~Aligns(R, last.path)
    /\ \E R \in RegPatterns(last.method) : MissingParam(R, last.path) )
  => last.handler = routeNotFoundHandler

\* No RegisterRoute call was made with method m.
NeverRegistered(m) == \A p \in RegPaths : calls[<<m, p>>] = << >>

\* C6: a method that RegisterRoute was never called with resolves every path
\* to the not-found handler, whatever is registered under other methods.
C6_UnregisteredMethodIsNotFound ==
  (Served /\ NeverRegistered(last.method))
    => /\ last.handler = routeNotFoundHandler
       /\ last.rw.code = StatusNotFound
       /\ Outcomes(last.method, last.path) = {routeNotFoundHandler}

\* C6 witness: not-found for a method without routes, for a path that is a
\* registered literal route of another method.
C6_Witness ==
  /\ Served
  /\ NeverRegistered(last.method)
  /\ \E m \in Methods \ {last.method} : last.path \in RegLiterals(m)
  /\ last.handler = routeNotFoundHandler

\* C7: registering the same (method, literal path) again replaces the
\* handler: the call adds no key to the method's mapping, the path then
\* resolves to the new handler only, and every later dispatch invokes the
\* handler of the latest registration, never a replaced one.
C7_ReRegisterReplaces ==
  /\ [][ nregs' = nregs + 1 =>
         \A m \in Methods : \A R \in RegPaths :
           ( /\ IsLiteralPath(R)
             /\ calls[<<m, R>>] # << >>
             /\ Len(calls'[<<m, R>>]) = Len(calls[<<m, R>>]) + 1 )
           => /\ DOMAIN routes'[m] = DOMAIN routes[m]
              /\ Cardinality({ k \in DOMAIN routes'[m] : k = R }) = 1
              /\ findReqHandler(routes', m, R)
                   = {calls'[<<m, R>>][Len(calls'[<<m, R>>])]} ]_vars
  /\ [](( /\ Served
          /\ last.path \in RegLiterals(last.method)
          /\ Len(calls[<<last.method, last.path>>]) >= 2 )
        => /\ last.handler = LatestHandler(last.method, last.path)
           /\ \A i \in 1..(Len(calls[<<last.method, last.path>>]) - 1) :
                calls[<<last.method, last.path>>][i]
                    # LatestHandler(last.method, last.path)
                  => last.handler # calls[<<last.method, last.path>>][i])

\* C7 witness: a literal path registered twice with different handlers and
\* another route registered under the method; the dispatch invoked the
\* second handler.
C7_Witness ==
  /\ Served
  /\ last.path \in RegLiterals(last.method)
  /\ last.method \in DOMAIN routes
  /\ Len(calls[<<last.method, last.path>>]) = 2
  /\ calls[<<last.method, last.path>>][1] # calls[<<last.method, last.path>>][2]
  /\ last.handler = calls[<<last.method, last.path>>][2]
  /\ Cardinality(DOMAIN routes[last.method]) = 2

\* C8: the not-found handler sets Content-Type: text/plain, then writes
\* status 404, then the body "404 - Page not found" and a newline; every
\* dispatch that resolves to not-found produces this response.
C8_NotFoundResponse ==
  (Served /\ last.handler = routeNotFoundHandler)
    => /\ last.rw.code = 404
       /\ last.rw.sent = ("Content-Type" :> "text/plain")
       /\ last.rw.body = "404 - Page not found\n"
       /\ last.rw.calls = <<"Header.Set", "WriteHeader", "Write">>

\* C8 witness: not-found for an unknown path of a method that has routes.
C8_Witness ==
  /\ Served
  /\ last.handler = routeNotFoundHandler
  /\ ~NeverRegistered(last.method)
  /\ last.rw.code = 404

\* The paths that differ from p in letter case only.
CaseVariants(p) == { q \in ReqPaths : SameFold(p, q) }

\* C9 (as claimed): when a path resolves to the handler of a registered
\* pattern route, every path that differs from it in letter case only
\* resolves to the same handler.
C9_CaseInsensitiveAsClaimed ==
  Served =>
    \A R \in RegPatterns(last.method) :
      ( /\ Aligns(R, last.path)
        /\ last.handler = LatestHandler(last.method, R) )
      => \A q \in CaseVariants(last.path) :
           Outcomes(last.method, q) = {last.handler}

\* C9 (amended): when a path that is no key of the method's table resolves
\* to the handler of a registered pattern route, every path that differs
\* from it in letter case only and is no key of the table either can
\* resolve to that handler too, and to exactly the handlers the first path
\* can resolve to.
C9_CaseInsensitive ==
  ( /\ Served
    /\ last.handler # routeNotFoundHandler
    /\ last.path \notin DOMAIN routes[last.method]
    /\ \E R \in RegPatterns(last.method) :
         /\ last.handler = LatestHandler(last.method, R)
         /\ Aligns(R, last.path) )
  => \A q \in CaseVariants(last.path) :
       q \notin DOMAIN routes[last.method]
         => /\ last.handler \in Outcomes(last.method, q)
            /\ Outcomes(last.method, q) = Outcomes(last.method, last.path)

\* C9 witness: a path with an upper-case letter in a parameter segment was
\* dispatched to the pattern route's handler.
C9_Witness ==
  /\ Served
  /\ \E i \in 1..Len(last.path) : last.path[i] = "A"
  /\ last.method \in DOMAIN routes
  /\ last.path \notin DOMAIN routes[last.method]
  /\ \E R \in RegPatterns(last.method) :
       /\ Aligns(R, last.path)
       /\ last.handler = LatestHandler(last.method, R)
       /\ Outcomes(last.method, last.path) = {last.handler}

\* C10: method isolation.  A RegisterRoute call under one method, made
\* where a request can be dispatched before and after it, changes the
\* outcome of no dispatch under another method, and a path registered
\* under several methods with different handlers is dispatched to each
\* method's own handler.
C10_MethodIsolation ==
  /\ [][ (nregs' = nregs + 1 /\ last.kind = "idle") =>
         \A m \in Methods :
           (\A p \in RegPaths : calls'[<<m, p>>] = calls[<<m, p>>])
             => \A q \in ReqPaths :
                  findReqHandler(routes', m, q) = findReqHandler(routes, m, q) ]_vars
  /\ []( Served =>
           \A m \in Methods \ {last.method} :
             ( /\ last.path \in RegLiterals(m)
               /\ last.path \in RegLiterals(last.method)
               /\ LatestHandler(m, last.path)
                    # LatestHandler(last.method, last.path) )
             => /\ last.handler = LatestHandler(last.method, last.path)
                /\ last.handler # LatestHandler(m, last.path) )

\* C10 witness: one path registered under both methods with different
\* handlers, dispatched under one of them to that method's handler.
C10_Witness ==
  /\ Served
  /\ \A m \in Methods : last.path \in RegLiterals(m)
  /\ \E m \in Methods \ {last.method} :
       LatestHandler(m, last.path) # LatestHandler(last.method, last.path)
  /\ last.handler = LatestHandler(last.method, last.path)

-----------------------------------------------------------------------------
(* C11 .. C20                                                              *)

\* The caller holds a pointer returned by RegisteredRoutes.
Holding == last.kind = "routes"

\* C11: RegisteredRoutes never returns nil and exposes the live table.  While
\* the pointer is held, whatever was registered before or after it was
\* obtained, the table behind it is the router's table, a method is a key of
\* it exactly when RegisterRoute was called with that method, and every
\* such method maps to a non-empty route mapping.
C11_LiveTable ==
  Holding =>
    LET t == Deref(last.ptr, routes)
    IN /\ last.ptr.ref # "nil"
       /\ t = routes
       /\ \A m \in Methods :
            m \in DOMAIN t <=> \E p \in RegPaths : calls[<<m, p>>] # << >>
       /\ \A m \in DOMAIN t : DOMAIN t[m] # {}

\* C11 witness: the pointer was obtained from the new router, routes were
\* registered under both methods afterwards, and both are seen through it.
C11_Witness ==
  /\ Holding
  /\ last.at = 0
  /\ nregs >= 2
  /\ DOMAIN Deref(last.ptr, routes) = Methods

\* C12 (as claimed): when the exact lookup fails, only keys of routes
\* registered with placeholders are accepted by the fallback, and a literal
\* route is reached only by a request path identical to it.
C12_OnlyPatternKeysInFallback ==
  (Served /\ last.method \in DOMAIN routes
          /\ last.path \notin DOMAIN routes[last.method])
    => /\ \A kf \in matchRoutePattern(DOMAIN routes[last.method], last.path) :
            kf[2] => \E R \in RegPatterns(last.method) : RouteKey(R) = kf[1]
       /\ (RegPatterns(last.method) = {} /\ last.handler # routeNotFoundHandler)
            => last.path \in RegLiterals(last.method)

\* C13: a path without a placeholder is stored under a key equal to the
\* path as given, without anchors, with an empty parameter map, and the
\* exact lookup of dispatch finds it.
C13_LiteralKeyIsPath ==
  \A m \in Methods : \A p \in WidePaths :
    (IsLiteralPath(p) /\ calls[<<m, p>>] # << >>)
      => /\ m \in DOMAIN routes
         /\ p \in DOMAIN routes[m]
         /\ (<<"^">> \o p \o <<"$">>) \notin DOMAIN routes[m]
         /\ routes[m][p] = [Handler |-> LatestHandler(m, p), IndexParams |-> << >>]
         /\ Outcomes(m, p) = {LatestHandler(m, p)}

\* C13 witness: a route registered without a placeholder is in the table
\* under its own path and a request for that path was dispatched to it.
C13_Witness ==
  /\ Served
  /\ IsLiteralPath(last.path)
  /\ last.path \in WidePaths
  /\ calls[<<last.method, last.path>>] # << >>
  /\ last.path \in DOMAIN routes[last.method]
  /\ last.handler = LatestHandler(last.method, last.path)

\* The index of the first '}' of p after index i, 0 if there is none.
CloseAt(p, i) ==
  LET es == { e \in (i + 1)..Len(p) : p[e] = "}" }
  IN IF es = {} THEN 0 ELSE SetMin(es)

\* A placeholder {name} starts at index i of p: the name is one or more
\* characters of [a-z0-9-_] in either letter case.
IsSpanStart(p, i) ==
  /\ i <= Len(p)
  /\ p[i] = "{"
  /\ CloseAt(p, i) > i + 1
  /\ \A y \in (i + 1)..(CloseAt(p, i) - 1) : p[y] \in ClassChars \cup {"A", "B"}

NumPlaceholders(p) == Cardinality({ i \in 1..Len(p) : IsSpanStart(p, i) })

NumCaptures(k) == Cardinality({ j \in 1..Len(k) : k[j] = CAP })

RECURSIVE KeyFollowsPath(_, _, _, _)
\* The elements j.. of k are the characters i.. of p with every placeholder
\* replaced by one capture group and every other character kept.
KeyFollowsPath(k, j, p, i) ==
  IF j > Len(k) THEN i > Len(p)
  ELSE IF k[j] = CAP
       THEN IsSpanStart(p, i) /\ KeyFollowsPath(k, j + 1, p, CloseAt(p, i) + 1)
       ELSE /\ i <= Len(p)
            /\ ~IsSpanStart(p, i)
            /\ k[j] = p[i]
            /\ KeyFollowsPath(k, j + 1, p, i + 1)

AnySpanStart(p, i) == i <= Len(p) /\ p[i] = "{" /\ CloseAt(p, i) > 0

SpanStarts(p) == { i \in 1..Len(p) : AnySpanStart(p, i) }

\* The text between the braces of the span that starts at index i.
SpanName(p, i) == SubSeq(p, i + 1, CloseAt(p, i) - 1)

\* Zero-based index of the '/'-delimited segment that holds index i.
SegIndex(p, i) == Cardinality({ j \in 1..i : p[j] = "/" }) - 1

\* C15 (as claimed): the entry of a route registered with k >= 1
\* placeholders carries a parameter map with one entry per placeholder, from
\* the index of the placeholder's segment to its name, so that the capture
\* groups of the key and the recorded names correspond one to one.
C15_ParamMapPerPlaceholder ==
  \A m \in Methods : \A p \in WidePaths :
    (SpanStarts(p) # {} /\ calls[<<m, p>>] # << >>)
      => /\ m \in DOMAIN routes
         /\ \E k \in DOMAIN routes[m] :
              /\ NumCaptures(k) = Cardinality(SpanStarts(p))
              /\ Cardinality(DOMAIN routes[m][k].ParamList)
                   = Cardinality(SpanStarts(p))
              /\ \A i \in SpanStarts(p) :
                   /\ SegIndex(p, i) \in DOMAIN routes[m][k].ParamList
                   /\ routes[m][k].ParamList[SegIndex(p, i)] = SpanName(p, i)

\* C16 (as claimed): every brace span of a registered path, whatever the
\* text between the braces, is replaced by the capture group, and the route
\* is stored as a pattern route, not under the path itself.
C16_NamesNotValidated ==
  \A m \in Methods : \A p \in WidePaths :
    (SpanStarts(p) # {} /\ calls[<<m, p>>] # << >>)
      => /\ m \in DOMAIN routes
         /\ p \notin DOMAIN routes[m]
         /\ \E k \in DOMAIN routes[m] :
              /\ k[1] = "^" /\ k[Len(k)] = "$"
              /\ NumCaptures(k) = Cardinality(SpanStarts(p))
              /\ \A j \in 1..Len(k) : k[j] \notin {"{", "}"}

\* The dispatch the caller has just made went through the fallback: the
\* method has routes and the exact lookup of the path failed.
ViaFallback ==
  /\ Served
  /\ last.method \in DOMAIN routes
  /\ last.path \notin DOMAIN routes[last.method]

\* The registered pattern routes of m whose key matches path p.
MatchingPatterns(m, p) == { R \in RegPatterns(m) : Found(RouteKey(R), p) }

\* C17 (as claimed): a dispatch that resolves through the fallback invokes
\* the handler stored under a registered key of the method that matches the
\* path; when several registered pattern routes match the path, the handler
\* of one of them is invoked, never not-found and never that of another
\* route.
C17_FallbackSound ==
  ViaFallback =>
    /\ last.handler # routeNotFoundHandler
         => \E k \in DOMAIN routes[last.method] :
              Found(k, last.path) /\ routes[last.method][k].Handler = last.handler
    /\ Cardinality(MatchingPatterns(last.method, last.path)) >= 2
         => \E R \in MatchingPatterns(last.method, last.path) :
              /\ last.handler = LatestHandler(last.method, R)
              /\ last.rw.body = LatestHandler(last.method, R)

\* C18 (as claimed): with a table under which at most one registered pattern
\* route aligns with the request path, every dispatch of the request
\* resolves to the same handler, whatever the iteration order of the map and
\* whatever literal routes are registered.
C18_Deterministic ==
  ( /\ Served
    /\ Cardinality({ R \in RegPatterns(last.method) : Aligns(R, last.path) }) <= 1 )
    => Outcomes(last.method, last.path) = {last.handler}

\* C19: dispatch never changes the route table.  The table after a
\* ServeHTTP call equals the table before it for every request, matched or
\* not, and a request whose method has no routes creates no entry for it.
C19_DispatchKeepsTable ==
  [][ last'.kind = "serve" =>
        /\ routes' = routes
        /\ \A m \in Methods : m \in DOMAIN routes' <=> m \in DOMAIN routes ]_vars

\* C19 witness: a request under a method without routes was dispatched while
\* the other method has routes, and the table has no entry for the
\* request's method afterwards.
C19_Witness ==
  /\ Served
  /\ DOMAIN routes # {}
  /\ last.method \notin DOMAIN routes
  /\ \A p \in RegPaths : calls[<<last.method, p>>] = << >>

StepIndex(st, c) ==
  IF \E i \in 1..Len(st) : st[i] = c
  THEN CHOOSE i \in 1..Len(st) : st[i] = c ELSE 0

-----------------------------------------------------------------------------
(* C21 .. C26                                                              *)

\* The caller has just made a ServeHTTP call, which returned or panicked.
Dispatched == last.kind \in {"serve", "panic"}

\* C21 (as claimed): every ServeHTTP call invokes exactly one handler,
\* exactly once and within the call: a handler stored in the table under the
\* request's method, or the not-found handler.
C21_OneHandlerOnce ==
  Dispatched =>
    /\ Cardinality({ i \in 1..Len(last.steps) : last.steps[i] = "handler" }) = 1
    /\ last.kind = "serve"
    /\ \/ last.handler = routeNotFoundHandler
       \/ /\ last.method \in DOMAIN routes
          /\ \E k \in DOMAIN routes[last.method] :
               routes[last.method][k].Handler = last.handler
    /\ last.handler \in Handlers
         => last.rw.body = last.handler /\ last.rw.calls = <<"Write">>
    /\ last.handler = routeNotFoundHandler => last.rw.code = StatusNotFound

\* C22 (as claimed): for every reachable table and every request
\* findReqHandler returns a handler with a nil error, so that no dispatch
\* ends otherwise than by the return of the handler it invoked.
C22_DispatchNeverFails ==
  Dispatched =>
    /\ last.kind = "serve"
    /\ last.steps = ServeSteps
    /\ Panic \notin Outcomes(last.method, last.path)

\* Paths p and q differ in the names of their placeholders at most.
SameShape(p, q) ==
  LET ps == Split(p)
      qs == Split(q)
  IN /\ Len(ps) = Len(qs)
     /\ \A i \in 1..Len(ps) :
          \/ ps[i] = qs[i]
          \/ IsPlaceholderSeg(ps[i]) /\ IsPlaceholderSeg(qs[i])

\* C23: two pattern paths that differ only in their placeholder names have
\* the same key.  The call that registers the second of them under a method
\* adds no entry and puts its handler under the key of both; when they are
\* all the method has, the method has a single entry and every request that
\* aligns with them resolves to the handler of the later call.
C23_NamesShareKey ==
  [][ nregs' = nregs + 1 =>
      \A m \in Methods : \A p \in NamePaths : \A p2 \in NamePaths \ {p} :
        ( /\ calls'[<<m, p>>] # calls[<<m, p>>]
          /\ calls[<<m, p2>>] # << >>
          /\ ~IsLiteralPath(p)
          /\ SameShape(p, p2) )
        => LET h == calls'[<<m, p>>][Len(calls'[<<m, p>>])]
           IN /\ DOMAIN routes'[m] = DOMAIN routes[m]
              /\ \E k \in DOMAIN routes'[m] :
                   /\ routes'[m][k].Handler = h
                   /\ KeyFollowsPath(SubSeq(k, 2, Len(k) - 1), 1, p, 1)
                   /\ KeyFollowsPath(SubSeq(k, 2, Len(k) - 1), 1, p2, 1)
              /\ (\A p3 \in NamePaths :
                    calls'[<<m, p3>>] # << >> => SameShape(p, p3))
                   => /\ Cardinality(DOMAIN routes'[m]) = 1
                      /\ \A q \in ReqPaths :
                           Aligns(p, q) => findReqHandler(routes', m, q) = {h} ]_vars

\* C23 witness: two paths that differ in a placeholder name were registered
\* under one method with different handlers, the method has one entry, and a
\* request that aligns with them was dispatched to the handler in the entry.
C23_Witness ==
  /\ Served
  /\ last.method \in DOMAIN routes
  /\ Cardinality(DOMAIN routes[last.method]) = 1
  /\ \E p \in NamePaths : \E p2 \in NamePaths \ {p} :
       /\ calls[<<last.method, p>>] # << >>
       /\ calls[<<last.method, p2>>] # << >>
       /\ SameShape(p, p2)
       /\ Aligns(p, last.path)
       /\ LatestHandler(last.method, p) # LatestHandler(last.method, p2)
       /\ last.handler = LatestHandler(last.method, p)
       /\ \A k \in DOMAIN routes[last.method] :
            routes[last.method][k].Handler = last.handler

\* C24: from every table to which two more routes can be registered, two
\* RegisterRoute calls whose (method, key) pairs differ give the same table
\* in either order, and so the same outcome for every request that the
\* table resolves by exact match.
C24_OrderIrrelevant ==
  (last.kind \in {"idle", "routes"} /\ nregs + 2 <= MaxRegs) =>
    \A m1 \in Methods, m2 \in Methods, p1 \in RegPaths, p2 \in RegPaths :
      <<m1, RouteKey(p1)>> # <<m2, RouteKey(p2)>> =>
        \A h1 \in Handlers, h2 \in Handlers :
          LET ab == Registered(Registered(routes, m1, p1, h1), m2, p2, h2)
              ba == Registered(Registered(routes, m2, p2, h2), m1, p1, h1)
          IN /\ ab = ba
             /\ \A m \in DOMAIN ab : \A q \in DOMAIN ab[m] \cap ReqPaths :
                  findReqHandler(ab, m, q) = findReqHandler(ba, m, q)

\* C24 witness: two routes with different (method, key) pairs and different
\* handlers are registered, the table is the one either order of the two
\* calls gives, and a request was resolved by exact match on it.
C24_Witness ==
  /\ Served
  /\ nregs = 2
  /\ last.method \in DOMAIN routes
  /\ last.path \in DOMAIN routes[last.method]
  /\ \E m1 \in Methods, m2 \in Methods, p1 \in RegPaths, p2 \in RegPaths :
       /\ <<m1, RouteKey(p1)>> # <<m2, RouteKey(p2)>>
       /\ calls[<<m1, p1>>] # << >>
       /\ calls[<<m2, p2>>] # << >>
       /\ LatestHandler(m1, p1) # LatestHandler(m2, p2)
       /\ routes = Registered(Registered(<< >>, m1, p1, LatestHandler(m1, p1)),
                              m2, p2, LatestHandler(m2, p2))
       /\ routes = Registered(Registered(<< >>, m2, p2, LatestHandler(m2, p2)),
                              m1, p1, LatestHandler(m1, p1))

\* C25: while the server runs, no step of any ServeHTTP call changes the
\* route table, and whatever the other calls do in between, a call invokes a
\* handler that findReqHandler gives for its own request on that table and
\* writes what that handler writes to a new recorder.
C25_ConcurrentDispatchesIndependent ==
  [][ inflight.serving =>
      /\ routes' = routes
      /\ \A i \in Goroutines :
           LET a == inflight.g[i]
               b == inflight'.g[i]
           IN /\ (a.pc # "idle" /\ b.pc # "idle")
                   => b.method = a.method /\ b.path = a.path
              /\ (a.pc = "handler" /\ b.pc = "done")
                   => /\ b.handler \in findReqHandler(routes, b.method, b.path)
                      /\ b.handler # Panic
                      /\ b.rw = Invoke(b.handler, NewRecorder) ]_vars

\* C25 witness: two ServeHTTP calls are active at once on a table with
\* routes, each has invoked its handler and none has returned, and the two
\* invoked different application handlers.
C25_Witness ==
  /\ inflight.serving
  /\ nregs = MaxConcRegs
  /\ \A i \in Goroutines :
       inflight.g[i].pc = "done" /\ inflight.g[i].handler \in Handlers
  /\ inflight.g[1].handler # inflight.g[2].handler

\* C26 (as claimed): a dispatch compiles no pattern; the patterns it matches
\* the path against were compiled when the routes were registered.
C26_NoCompilationInDispatch ==
  Dispatched => Compilations(routes, last.method, last.path) = {0}

====
